---- MODULE Spec2Model ----
(***************************************************************************)
(* A model of the audio/video editor tool bridge.                          *)
(*                                                                         *)
(*   Client (mcp_client.py): setup_mcp_client opens the stdio channel,     *)
(*   performs the handshake and the discovery, builds one proxy per        *)
(*   discovered tool and returns; the interactive loop then reads intents  *)
(*   and runs the agent, which may invoke the proxies.                     *)
(*                                                                         *)
(*   Worker (mcp_server.py): twelve operations over a shared output        *)
(*   directory, each a call of the external engine wrapped in try/except.  *)
(*                                                                         *)
(* Spec is the client, ServerSpec the worker, LiveSpec the client with the *)
(* fairness of a running interpreter.                                      *)
(***************************************************************************)
EXTENDS Integers, Sequences, FiniteSets, TLC

VARIABLES
    pc,             \* position of the client's main program
    channel,        \* the stdio_client subprocess channel
    SESSION,        \* the ClientSession the proxies are bound to
    tools_list,     \* result of session.list_tools()
    tool,           \* index of the loop variable `tool` in tools_list
    langchain_tools,\* the list being built by the loop
    TOOLS,          \* the global the agent is created with
    wire,           \* methods of the requests written to the channel
    handshakes,     \* completed session.initialize() calls
    discoveries,    \* session.list_tools() calls started
    user_input,     \* the line read by input()
    loop_running,   \* an asyncio event loop is running in the main thread
    call,           \* the proxy invocation in progress (or the last one)
    printed,        \* the last line printed to the operator
    crash,          \* the exception that ended the program, "" if none
    intents,        \* intents handed to run_agent so far
    calls,          \* proxy invocations during the current intent
    fs,             \* worker: the output directory, name -> content
    wcall           \* worker: the operation calls, id -> record

cvars == <<pc, channel, SESSION, tools_list, tool, langchain_tools, TOOLS, wire,
           handshakes, discoveries, user_input, loop_running, call, printed,
           crash, intents, calls>>
svars == <<fs, wcall>>
vars  == <<pc, channel, SESSION, tools_list, tool, langchain_tools, TOOLS, wire,
           handshakes, discoveries, user_input, loop_running, call, printed,
           crash, intents, calls, fs, wcall>>

-----------------------------------------------------------------------------
(* Bounds of the model. *)

\* intents the operator enters before the model stops reading
MaxIntents == 2
\* proxy invocations the planner makes for one intent
MaxCalls == 1

-----------------------------------------------------------------------------
(* The catalog the worker registers: name, parameters, required ones. *)

Descriptor(n, req, opt) == [name |-> n, required |-> req, optional |-> opt]

Catalog ==
    << Descriptor("download_youtube_video", {"url"}, {"output_name"}),
       Descriptor("trim_video", {"input_path", "start_time", "end_time"}, {"output_name"}),
       Descriptor("merge_videos", {"input_path1", "input_path2"}, {"output_name"}),
       Descriptor("extract_audio", {"input_path"}, {"output_name"}),
       Descriptor("trim_audio", {"input_path", "start_time", "end_time"}, {"output_name"}),
       Descriptor("convert_video_format", {"input_path"}, {"output_format", "output_name"}),
       Descriptor("add_watermark", {"input_path", "watermark_path"}, {"position", "output_name"}),
       Descriptor("extract_frames", {"input_path"}, {"interval", "output_dir_name"}),
       Descriptor("change_audio_speed", {"input_path", "speed_factor"}, {"output_name"}),
       Descriptor("change_video_speed", {"input_path", "speed_factor"}, {"output_name"}),
       Descriptor("mute_video_audio", {"input_path"}, {"output_name"}),
       Descriptor("create_gif", {"input_path", "start_time", "duration"},
                  {"fps", "width", "output_name"}) >>

ToolNames == {Catalog[i].name : i \in DOMAIN Catalog}

-----------------------------------------------------------------------------
(* Python semantics the client relies on. *)

\* The classes deriving from Exception, which `except Exception` catches.
Exceptions == {"RuntimeError", "ClosedResourceError", "TypeError",
               "WorkerUnavailable", "InitializeError", "ListToolsError", "EOFError"}

\* str.lower(), letter by letter, over the alphabet of the modelled inputs.
LowerOf == [c \in {"Q", "U", "I", "T", "E", "X"} |->
             CASE c = "Q" -> "q" [] c = "U" -> "u" [] c = "I" -> "i"
               [] c = "T" -> "t" [] c = "E" -> "e" [] c = "X" -> "x"]

LowerIdentity(s) == s

lower(s) == [i \in DOMAIN s |-> IF s[i] \in DOMAIN LowerOf THEN LowerOf[s[i]] ELSE s[i]]

\* The list ['quit', 'exit', 'q'] of the termination test.
QuitTokens == { <<"q", "u", "i", "t">>, <<"e", "x", "i", "t">>, <<"q">> }

\* Lines the operator may type.
Inputs == { <<"q", "u", "i", "t">>, <<"Q", "U", "I", "T">>, <<"Q", "u", "i", "t">>,
            <<"e", "x", "i", "t">>, <<"E", "x", "I", "t">>,
            <<"q">>, <<"Q">>,
            <<"q", "u", "i", "t", " ">>, <<"t", "r", "i", "m">> }

\* asyncio.run(coro): refuses to start when a loop already runs in the calling
\* thread, otherwise runs the coroutine in a fresh loop.
asyncio_run_blocking(running) == IF running THEN "blocked" ELSE "run"

asyncio_run(running) == IF running THEN "RuntimeError" ELSE "run"

\* `except Exception as e` of the interactive loop.
CaughtNarrow(e) == e = "TypeError"

Caught(e) == e \in Exceptions

-----------------------------------------------------------------------------
(* The client's state after module import, before asyncio.run(setup). *)

NoCall == [state |-> "none", proxy |-> 0, has_pos |-> FALSE, pos |-> "",
           kwargs |-> {}, in_loop_thread |-> FALSE, tool_name |-> "",
           requested |-> FALSE, outcome |-> ""]

ClientInit ==
    /\ pc = "start"
    /\ channel = "unopened"
    /\ SESSION = "none"
    /\ tools_list = << >>
    /\ tool = 0
    /\ langchain_tools = << >>
    /\ TOOLS = << >>
    /\ wire = << >>
    /\ handshakes = 0
    /\ discoveries = 0
    /\ user_input = << >>
    /\ loop_running = FALSE
    /\ call = NoCall
    /\ printed = [kind |-> "none", text |-> ""]
    /\ crash = ""
    /\ intents = 0
    /\ calls = 0

\* An exception leaving asyncio.run(setup_mcp_client()): both context managers
\* exit, and nothing at module level catches it.
SetupRaise(e) ==
    /\ pc' = "crashed"
    /\ crash' = e
    /\ channel' = IF channel = "open" THEN "closed" ELSE channel
    /\ SESSION' = IF SESSION = "none" THEN "none" ELSE "closed"
    /\ loop_running' = FALSE

\* async with stdio_client(...) / async with ClientSession(...)
OpenChannel ==
    /\ UNCHANGED svars
    /\ pc = "start"
    /\ \/ /\ pc' = "opened"
          /\ channel' = "open"
          /\ loop_running' = TRUE
          /\ UNCHANGED <<crash, SESSION>>
       \/ SetupRaise("WorkerUnavailable")
    /\ UNCHANGED <<tools_list, tool, langchain_tools, TOOLS, wire, handshakes,
                   discoveries, user_input, call, printed, intents, calls>>

\* await session.initialize(); SESSION = session
InitializeSkipped ==
    /\ UNCHANGED svars
    /\ pc = "opened"
    /\ pc' = "initialized"
    /\ SESSION' = "active"
    /\ UNCHANGED <<wire, handshakes, crash, channel, loop_running>>
    /\ UNCHANGED <<tools_list, tool, langchain_tools, TOOLS, discoveries,
                   user_input, call, printed, intents, calls>>

Initialize ==
    /\ UNCHANGED svars
    /\ pc = "opened"
    /\ wire' = Append(wire, "initialize")
    /\ \/ /\ pc' = "initialized"
          /\ handshakes' = handshakes + 1
          /\ SESSION' = "active"
          /\ UNCHANGED <<crash, channel, loop_running>>
       \/ /\ SetupRaise("InitializeError")
          /\ UNCHANGED handshakes
    /\ UNCHANGED <<tools_list, tool, langchain_tools, TOOLS, discoveries,
                   user_input, call, printed, intents, calls>>

\* tools_list = await session.list_tools()
ListTools ==
    /\ UNCHANGED svars
    /\ pc = "initialized"
    /\ wire' = Append(wire, "tools/list")
    /\ discoveries' = discoveries + 1
    /\ \/ /\ pc' = "building"
          /\ tools_list' = Catalog
          /\ tool' = 1
          /\ UNCHANGED <<crash, channel, SESSION, loop_running>>
       \/ /\ SetupRaise("ListToolsError")
          /\ UNCHANGED <<tools_list, tool>>
    /\ UNCHANGED <<langchain_tools, TOOLS, handshakes, user_input, call,
                   printed, intents, calls>>

\* One iteration of `for tool in tools_list.tools`: call_tool's default
\* tool_name and the lambda's default tn are evaluated now, from tool.name.
BuildProxy ==
    /\ UNCHANGED svars
    /\ pc = "building"
    /\ tool <= Len(tools_list)
    /\ langchain_tools' = Append(langchain_tools,
                                 [name      |-> tools_list[tool].name,
                                  tn        |-> tools_list[tool].name,
                                  tool_name |-> tools_list[tool].name])
    /\ tool' = tool + 1
    /\ UNCHANGED <<pc, channel, SESSION, tools_list, TOOLS, wire, handshakes,
                   discoveries, user_input, loop_running, call, printed, crash,
                   intents, calls>>

\* TOOLS = langchain_tools; return langchain_tools -- the return leaves both
\* `async with` blocks, then asyncio.run closes its loop.
SetupReturn ==
    /\ UNCHANGED svars
    /\ pc = "building"
    /\ tool > Len(tools_list)
    /\ TOOLS' = langchain_tools
    /\ SESSION' = "closed"
    /\ channel' = "closed"
    /\ loop_running' = FALSE
    /\ pc' = "prompt"
    /\ printed' = [kind |-> "banner", text |-> ""]
    /\ UNCHANGED <<tools_list, tool, langchain_tools, wire, handshakes,
                   discoveries, user_input, call, crash, intents, calls>>

-----------------------------------------------------------------------------
(* The interactive loop. *)

\* What the planner may pass to a proxy: at most one positional value (the
\* single tool input of a Tool) and keyword arguments named after parameters.
PlannerTexts == {"a.mp4", "trim_video"}

PositionalArgs == {[has_pos |-> FALSE, pos |-> ""]}
                    \cup {[has_pos |-> TRUE, pos |-> t] : t \in PlannerTexts}

KwargSets(d) == {d.required, d.required \cup d.optional}
                  \cup {d.required \ {p} : p \in d.required}

\* Failures a proxy can raise to its caller.
ProxyFailures == {"RuntimeError", "ClosedResourceError"}

\* user_input = input(...): a line, or EOFError at end of input (not in the try).
ReadInput ==
    /\ UNCHANGED svars
    /\ pc = "prompt"
    /\ intents < MaxIntents
    /\ \/ /\ \E line \in Inputs : user_input' = line
          /\ pc' = "read"
          /\ intents' = intents + 1
          /\ UNCHANGED crash
       \/ /\ pc' = "crashed"
          /\ crash' = "EOFError"
          /\ UNCHANGED <<user_input, intents>>
    /\ UNCHANGED <<channel, SESSION, tools_list, tool, langchain_tools, TOOLS,
                   wire, handshakes, discoveries, loop_running, call, printed,
                   calls>>

\* if user_input.lower() in ['quit', 'exit', 'q']: break
\* else: try: result = asyncio.run(run_agent(user_input)) ...
Dispatch ==
    /\ UNCHANGED svars
    /\ pc = "read"
    /\ IF lower(user_input) \in QuitTokens
         THEN /\ pc' = "done"
              /\ UNCHANGED <<loop_running, call, calls>>
         ELSE /\ pc' = "agent"
              /\ loop_running' = TRUE
              /\ call' = NoCall
              /\ calls' = 0
    /\ UNCHANGED <<channel, SESSION, tools_list, tool, langchain_tools, TOOLS,
                   wire, handshakes, discoveries, user_input, printed, crash,
                   intents>>

\* agent.invoke(...) selects a proxy of TOOLS and calls its func, on the thread
\* that runs the loop or on a worker thread of the agent's executor.
AgentInvoke ==
    /\ UNCHANGED svars
    /\ pc = "agent"
    /\ call.state # "invoked"
    /\ calls < MaxCalls
    /\ \E p \in DOMAIN TOOLS, a \in PositionalArgs, th \in BOOLEAN :
         \E kw \in KwargSets(Catalog[p]) :
           call' = [state |-> "invoked", proxy |-> p, has_pos |-> a.has_pos,
                    pos |-> a.pos, kwargs |-> kw,
                    in_loop_thread |-> th, tool_name |-> "",
                    requested |-> FALSE, outcome |-> ""]
    /\ calls' = calls + 1
    /\ UNCHANGED <<pc, channel, SESSION, tools_list, tool, langchain_tools,
                   TOOLS, wire, handshakes, discoveries, user_input,
                   loop_running, printed, crash, intents>>

\* func = lambda tn=tool.name, **kwargs: asyncio.run(call_tool(tn, **kwargs)):
\* a positional argument binds to tn, replacing the default.
BoundName(proxy, has_pos, pos) == IF has_pos THEN pos ELSE proxy.tn

\* The body of the lambda and of call_tool:
\*   result = await session.call_tool(tool_name, arguments=kwargs)
\*   return result.content[0].text if result.content else "No result"
ProxyResolve ==
    /\ UNCHANGED svars
    /\ pc = "agent"
    /\ call.state = "invoked"
    /\ LET tn      == BoundName(TOOLS[call.proxy], call.has_pos, call.pos)
           started == asyncio_run(loop_running /\ call.in_loop_thread)
       IN  /\ started # "blocked"
           /\ IF started = "RuntimeError"
                THEN /\ call' = [call EXCEPT !.state = "resolved",
                                             !.outcome = "RuntimeError"]
                     /\ UNCHANGED wire
                ELSE IF channel = "open" /\ SESSION = "active"
                  THEN /\ call' = [call EXCEPT !.state = "resolved",
                                               !.tool_name = tn,
                                               !.requested = TRUE,
                                               !.outcome = "text"]
                       /\ wire' = Append(wire, "tools/call")
                  ELSE /\ call' = [call EXCEPT !.state = "resolved",
                                               !.tool_name = tn,
                                               !.requested = TRUE,
                                               !.outcome = "ClosedResourceError"]
                       /\ UNCHANGED wire
    /\ UNCHANGED <<pc, channel, SESSION, tools_list, tool, langchain_tools,
                   TOOLS, handshakes, discoveries, user_input, loop_running,
                   printed, crash, intents, calls>>

\* agent.invoke returns; the loop prints the result, every message content
\* included, and prompts again.
AgentFinish ==
    /\ UNCHANGED svars
    /\ pc = "agent"
    /\ call.state # "invoked"
    /\ printed' = [kind |-> "Result", text |-> call.outcome]
    /\ loop_running' = FALSE
    /\ pc' = "prompt"
    /\ UNCHANGED <<channel, SESSION, tools_list, tool, langchain_tools, TOOLS,
                   wire, handshakes, discoveries, user_input, call, crash,
                   intents, calls>>

\* The proxy's exception leaves agent.invoke, run_agent and asyncio.run:
\*   except Exception as e: print(f"Error: {str(e)}")
AgentRaise ==
    /\ UNCHANGED svars
    /\ pc = "agent"
    /\ call.state = "resolved"
    /\ call.outcome \in ProxyFailures
    /\ loop_running' = FALSE
    /\ IF Caught(call.outcome)
         THEN /\ printed' = [kind |-> "Error", text |-> call.outcome]
              /\ pc' = "prompt"
              /\ UNCHANGED crash
         ELSE /\ pc' = "crashed"
              /\ crash' = call.outcome
              /\ UNCHANGED printed
    /\ UNCHANGED <<channel, SESSION, tools_list, tool, langchain_tools, TOOLS,
                   wire, handshakes, discoveries, user_input, call, intents,
                   calls>>

-----------------------------------------------------------------------------
(* The worker's state at start: an empty output directory, no call made. *)


\* operation calls the dispatcher hands to the worker
MaxWorkerCalls == 2

CallIds == 1..MaxWorkerCalls

\* OUTPUT_DIR / "file_list.txt", the list merge_videos writes for the engine.
ListFile == "file_list.txt"

\* Output names and input paths a caller may pass.
OutNames == {"a.mp4", "b.mp4", ListFile}

InputPairs == { <<"v1.mp4", "v2.mp4">>, <<"v3.mp4", "v4.mp4">> }

\* The entries the output directory can hold.
Files == OutNames \cup {n \o ".avi" : n \in OutNames}

Absent == [kind |-> "absent", data |-> << >>]
Dir == [kind |-> "dir", data |-> << >>]
File(d) == [kind |-> "file", data |-> d]

\* The literal each operation's except clause puts before str(e).
ErrorPrefix(t) ==
    CASE t = "download_youtube_video" -> <<"Error", "downloading", "video:">>
      [] t = "trim_video"             -> <<"Error", "trimming", "video:">>
      [] t = "merge_videos"           -> <<"Error", "merging", "videos:">>
      [] t = "extract_audio"          -> <<"Error", "extracting", "audio:">>
      [] t = "trim_audio"             -> <<"Error", "trimming", "audio:">>
      [] t = "convert_video_format"   -> <<"Error", "converting", "video", "format:">>
      [] t = "add_watermark"          -> <<"Error", "adding", "watermark:">>
      [] t = "extract_frames"         -> <<"Error", "extracting", "frames:">>
      [] t = "change_audio_speed"     -> <<"Error", "changing", "audio", "speed:">>
      [] t = "change_video_speed"     -> <<"Error", "changing", "video", "speed:">>
      [] t = "mute_video_audio"       -> <<"Error", "muting", "video", "audio:">>
      [] t = "create_gif"             -> <<"Error", "creating", "GIF:">>

\* What an operation hands back to the dispatcher.
NoReturn == [kind |-> "none", words |-> << >>, text |-> ""]
Success(path) == [kind |-> "path", words |-> << >>, text |-> path]
Failure(t, e) == [kind |-> "error", words |-> ErrorPrefix(t), text |-> e]
Escaped(e) == [kind |-> "exception", words |-> << >>, text |-> e]

Idle == [state |-> "idle", tool |-> "", output_name |-> "", inputs |-> << >>,
         engine_ok |-> FALSE, bad_arg |-> FALSE, ret |-> NoReturn]

\* Operations with an argument their try block computes with before the engine
\* runs: 1/interval, 1/speed_factor, position.split(':')[1].
HasComputedArg(t) == t \in {"extract_frames", "change_video_speed", "add_watermark"}

\* Operations that are one engine run inside try/except and nothing else.
PlainTools == ToolNames \ {"merge_videos", "extract_frames", "create_gif"}

\* output_path = OUTPUT_DIR / output_name (convert_video_format appends the
\* format, "avi" by default).
OutputFile(c) ==
    IF c.tool = "convert_video_format" THEN c.output_name \o ".avi" ELSE c.output_name

\* .run(overwrite_output=True, ...): the engine writes the output unless it
\* fails or the output path is a directory.
EngineWrites(c, dir) == c.engine_ok /\ dir[OutputFile(c)].kind # "dir"

ServerInit ==
    /\ fs = [n \in Files |-> Absent]
    /\ wcall = [c \in CallIds |-> Idle]

\* The dispatcher calls an operation with its arguments.
Receive(c) ==
    /\ UNCHANGED cvars
    /\ wcall[c].state = "idle"
    /\ \E t \in ToolNames, o \in OutNames, i \in InputPairs, ok \in BOOLEAN,
          bad \in BOOLEAN :
         /\ bad => HasComputedArg(t)
         /\ wcall' = [wcall EXCEPT ![c] =
                        [state |-> "called", tool |-> t, output_name |-> o,
                         inputs |-> i, engine_ok |-> ok, bad_arg |-> bad,
                         ret |-> NoReturn]]
    /\ UNCHANGED fs

Return(c, r) == wcall' = [wcall EXCEPT ![c].state = "returned", ![c].ret = r]

\* download_youtube_video, trim_video, extract_audio, trim_audio,
\* convert_video_format, add_watermark, change_audio_speed, change_video_speed,
\* mute_video_audio: try: <engine run>; return str(output_path)
\*                   except Exception as e: return f"Error ...: {str(e)}"
RunPlain(c) ==
    /\ UNCHANGED cvars
    /\ wcall[c].state = "called"
    /\ wcall[c].tool \in PlainTools
    /\ LET w == wcall[c] IN
         IF w.bad_arg
           THEN /\ Return(c, Failure(w.tool, "ArgumentError"))
                /\ UNCHANGED fs
           ELSE IF EngineWrites(w, fs)
             THEN /\ fs' = [fs EXCEPT ![OutputFile(w)] = File(<<w.tool, w.inputs[1]>>)]
                  /\ Return(c, Success(OutputFile(w)))
             ELSE /\ Return(c, Failure(w.tool, "ffmpeg.Error"))
                  /\ UNCHANGED fs

\* extract_frames: output_dir.mkdir(parents=True, exist_ok=True) stands before
\* the try; it raises FileExistsError when the path is a regular file.
RunExtractFrames(c) ==
    /\ UNCHANGED cvars
    /\ wcall[c].state = "called"
    /\ wcall[c].tool = "extract_frames"
    /\ LET w == wcall[c] IN
         IF fs[OutputFile(w)].kind = "file"
           THEN /\ wcall' = [wcall EXCEPT ![c].state = "raised",
                                          ![c].ret = Escaped("FileExistsError")]
                /\ UNCHANGED fs
           ELSE /\ fs' = [fs EXCEPT ![OutputFile(w)] = Dir]
                /\ Return(c, IF w.bad_arg THEN Failure(w.tool, "ZeroDivisionError")
                             ELSE IF w.engine_ok THEN Success(OutputFile(w))
                             ELSE Failure(w.tool, "ffmpeg.Error"))

\* create_gif: `.input(...).filter.filter('scale', width, -1)` reads the
\* attribute `filter` of a bound method, inside the try.
RunCreateGif(c) ==
    /\ UNCHANGED cvars
    /\ wcall[c].state = "called"
    /\ wcall[c].tool = "create_gif"
    /\ Return(c, Failure("create_gif", "AttributeError"))
    /\ UNCHANGED fs

\* merge_videos, first step: with open(OUTPUT_DIR / "file_list.txt", "w") as f:
\* one line per input path.
MergeWriteList(c) ==
    /\ UNCHANGED cvars
    /\ wcall[c].state = "called"
    /\ wcall[c].tool = "merge_videos"
    /\ IF fs[ListFile].kind = "dir"
         THEN /\ Return(c, Failure("merge_videos", "IsADirectoryError"))
              /\ UNCHANGED fs
         ELSE /\ fs' = [fs EXCEPT ![ListFile] = File(wcall[c].inputs)]
              /\ wcall' = [wcall EXCEPT ![c].state = "listed"]

\* merge_videos, second step: the engine concatenates what the list names now.
MergeRun(c) ==
    /\ UNCHANGED cvars
    /\ wcall[c].state = "listed"
    /\ LET w == wcall[c] IN
         IF fs[ListFile].kind = "file" /\ EngineWrites(w, fs)
           THEN /\ fs' = [fs EXCEPT ![OutputFile(w)] =
                                       File(<<"merge_videos">> \o fs[ListFile].data)]
                /\ wcall' = [wcall EXCEPT ![c].state = "merged"]
           ELSE /\ Return(c, Failure("merge_videos", "ffmpeg.Error"))
                /\ UNCHANGED fs

\* merge_videos, third step: os.remove(OUTPUT_DIR / "file_list.txt");
\* return str(output_path)
MergeRemove(c) ==
    /\ UNCHANGED cvars
    /\ wcall[c].state = "merged"
    /\ IF fs[ListFile].kind = "file"
         THEN /\ fs' = [fs EXCEPT ![ListFile] = Absent]
              /\ Return(c, Success(OutputFile(wcall[c])))
         ELSE /\ Return(c, Failure("merge_videos", "FileNotFoundError"))
              /\ UNCHANGED fs

-----------------------------------------------------------------------------
(* Specifications. *)

Init == ClientInit /\ ServerInit

Next ==
    \/ OpenChannel
    \/ Initialize
    \/ ListTools
    \/ BuildProxy
    \/ SetupReturn
    \/ ReadInput
    \/ Dispatch
    \/ AgentInvoke
    \/ ProxyResolve
    \/ AgentFinish
    \/ AgentRaise

Spec == Init /\ [][Next]_vars

ServerNext ==
    \/ \E c \in CallIds : Receive(c)
    \/ \E c \in CallIds : RunPlain(c)
    \/ \E c \in CallIds : RunExtractFrames(c)
    \/ \E c \in CallIds : RunCreateGif(c)
    \/ \E c \in CallIds : MergeWriteList(c)
    \/ \E c \in CallIds : MergeRun(c)
    \/ \E c \in CallIds : MergeRemove(c)

ServerSpec == Init /\ [][ServerNext]_vars

\* The interpreter keeps running the proxy it has entered.
LiveSpec == Spec /\ WF_vars(ProxyResolve)

-----------------------------------------------------------------------------
(* Claims about the client. *)

\* C1: every call_tool request a proxy issues names the tool the proxy was built
\* for, whatever the planner passes to it.
C1_ProxyNamesOwnTool ==
    call.requested => call.tool_name = TOOLS[call.proxy].name

\* C2: a proxy failure that leaves run_agent is caught by the loop and printed;
\* the loop is then prompting again, it has not ended.
C2_FailureSurfaced ==
    [][ (pc = "agent" /\ call.state = "resolved" /\ call.outcome \in ProxyFailures
           /\ pc' # "agent")
        => (pc' = "prompt" /\ printed'.kind \in {"Error", "Result"}
              /\ printed'.text = call.outcome /\ crash' = "") ]_vars

C2_Witness ==
    /\ pc = "prompt"
    /\ printed = [kind |-> "Error", text |-> "ClosedResourceError"]
    /\ call.state = "resolved"

\* C3: a line that spells quit, exit or q in any letter case ends the loop:
\* run_agent is not entered for it, and nothing happens afterwards.
SameLetter(a, b) == a = b \/ (a \in DOMAIN LowerOf /\ LowerOf[a] = b)

IsTerminationToken(s) ==
    \E t \in { <<"q", "u", "i", "t">>, <<"e", "x", "i", "t">>, <<"q">> } :
        Len(s) = Len(t) /\ \A i \in DOMAIN t : SameLetter(s[i], t[i])

C3_QuitEndsLoop ==
    [][ /\ (pc = "read" /\ IsTerminationToken(user_input))
             => (pc' = "done" /\ call' = call /\ wire' = wire /\ ~loop_running')
        /\ pc = "done" => (pc' = "done" /\ call' = call /\ wire' = wire) ]_vars

C3_Witness ==
    pc = "done" /\ user_input = <<"E", "x", "I", "t">> /\ intents = 2

\* C4: the handshake completes before discovery starts, discovery happens at
\* most once and exactly once before the loop runs, and no tool invocation is
\* made before discovery has completed.
C4_HandshakeThenDiscovery ==
    /\ discoveries <= 1
    /\ discoveries > 0 => handshakes = 1
    /\ \A i \in DOMAIN wire :
         /\ wire[i] = "tools/list" => \E j \in 1..(i - 1) : wire[j] = "initialize"
         /\ wire[i] = "tools/call" => \E j \in 1..(i - 1) : wire[j] = "tools/list"
    /\ (pc \in {"prompt", "read", "agent", "done"} \/ call.state # "none")
         => (discoveries = 1 /\ tools_list = Catalog /\ handshakes = 1)

C4_Witness ==
    call.state = "resolved" /\ call.requested /\ discoveries = 1

\* C5: a proxy invoked without a required argument fails with a local
\* ValidationError and issues no request.
MissingRequired(c) == ~(Catalog[c.proxy].required \subseteq c.kwargs)

C5_ValidationBeforeWire ==
    (call.state = "resolved" /\ MissingRequired(call))
        => (call.outcome = "ValidationError" /\ ~call.requested)

\* C6: every proxy invocation ends with one outcome, a result or a failure its
\* caller sees; none stays pending, also when the wrapper is entered while the
\* loop of run_agent is running.
C6_NoCallHangs ==
    /\ [](call.state = "resolved" => call.outcome \in ProxyFailures \cup {"text"})
    /\ (call.state = "invoked") ~> (call.state = "resolved")

C6_Witness ==
    /\ call.state = "resolved"
    /\ call.in_loop_thread /\ loop_running
    /\ call.outcome = "RuntimeError"

\* C9: whenever a proxy is invoked, the session and the channel it is bound to
\* are open.
C9_ChannelOpenWhileInvoked ==
    call.state # "none" => (channel = "open" /\ SESSION = "active")

-----------------------------------------------------------------------------
(* Claims about the worker. *)

Finished(w) == w.state \in {"returned", "raised"}

\* C7: every operation call ends by returning a string, the output location or
\* a text that begins with "Error"; no exception reaches the dispatcher.
C7_AlwaysReturnsText ==
    \A c \in CallIds :
        Finished(wcall[c]) =>
            /\ wcall[c].state = "returned"
            /\ \/ wcall[c].ret = Success(OutputFile(wcall[c]))
               \/ (wcall[c].ret.kind = "error" /\ Head(wcall[c].ret.words) = "Error")

\* C8: calls with distinct declared output names do not interfere: a call the
\* engine can serve returns its output location, and its output stays what the
\* call alone would have written.
DistinctOutputNames ==
    \A c, d \in CallIds :
        (c # d /\ wcall[c].state # "idle" /\ wcall[d].state # "idle")
            => wcall[c].output_name # wcall[d].output_name

AloneContent(w) ==
    IF w.tool = "extract_frames" THEN Dir
    ELSE IF w.tool = "merge_videos"
      THEN (IF OutputFile(w) = ListFile THEN Absent
            ELSE File(<<"merge_videos">> \o w.inputs))
      ELSE File(<<w.tool, w.inputs[1]>>)

C8_DistinctOutputsIndependent ==
    DistinctOutputNames =>
        \A c \in CallIds :
            (Finished(wcall[c]) /\ wcall[c].engine_ok /\ ~wcall[c].bad_arg
               /\ wcall[c].tool # "create_gif")
            => /\ wcall[c].ret = Success(OutputFile(wcall[c]))
               /\ fs[OutputFile(wcall[c])] = AloneContent(wcall[c])

\* C10: create_gif returns the output location whenever the engine would
\* succeed on its command.
C10_GifSucceedsWithEngine ==
    \A c \in CallIds :
        (Finished(wcall[c]) /\ wcall[c].tool = "create_gif"
           /\ EngineWrites(wcall[c], fs))
        => wcall[c].ret = Success(OutputFile(wcall[c]))

====
